---- MODULE Spec2Model ----
(***************************************************************************)
(* Model of the cart controller of src/src/index.ts: the in-memory cart    *)
(* list closed over by the click handlers, and the DOM regions the         *)
(* handlers write (the product cards' add button and quantity selector,    *)
(* the cart panel, the confirmation modal).                                *)
(*                                                                         *)
(* Text is a sequence of one-character strings.  Money is an integer       *)
(* number of cents: the price texts of the modelled pages have at most two *)
(* decimals, for which price * quantity and their sum, formatted by        *)
(* toFixed(2), are exact.                                                  *)
(***************************************************************************)
EXTENDS Integers, Sequences, FiniteSets, TLC

\* Cap on an entry's quantity (the increment guard stops there).
MaxQty == 2

Cards == 1..3

----------------------------------------------------------------------------
\* Text helpers

Txt1(a) == <<a>>
Txt2(a, b) == <<a, b>>
Txt3(a, b, c) == <<a, b, c>>

RECURSIVE TrimLeft(_)
TrimLeft(s) == IF s # <<>> /\ Head(s) = " " THEN TrimLeft(Tail(s)) ELSE s

RECURSIVE TrimRight(_)
TrimRight(s) ==
    IF s # <<>> /\ s[Len(s)] = " " THEN TrimRight(SubSeq(s, 1, Len(s) - 1)) ELSE s

\* String.prototype.trim
Trim(s) == TrimRight(TrimLeft(s))

\* Index of the first element of s equal to x, 0 when there is none.
RECURSIVE IndexOf(_, _, _)
IndexOf(s, x, i) ==
    IF i > Len(s) THEN 0 ELSE IF s[i] = x THEN i ELSE IndexOf(s, x, i + 1)

\* s.replace(x, ''): only the first occurrence goes.
ReplaceFirst(s, x) ==
    LET i == IndexOf(s, x, 1)
    IN  IF i = 0 THEN s ELSE SubSeq(s, 1, i - 1) \o SubSeq(s, i + 1, Len(s))

DigitVal == ("0" :> 0) @@ ("1" :> 1) @@ ("2" :> 2) @@ ("3" :> 3) @@ ("4" :> 4) @@
            ("5" :> 5) @@ ("6" :> 6) @@ ("7" :> 7) @@ ("8" :> 8) @@ ("9" :> 9)

IsDigit(ch) == ch \in DOMAIN DigitVal

\* Longest prefix of s made of digits.
RECURSIVE LeadingDigits(_)
LeadingDigits(s) ==
    IF s # <<>> /\ IsDigit(Head(s)) THEN <<Head(s)>> \o LeadingDigits(Tail(s)) ELSE <<>>

RECURSIVE DigitsValue(_, _)
DigitsValue(ds, acc) ==
    IF ds = <<>> THEN acc ELSE DigitsValue(Tail(ds), 10 * acc + DigitVal[Head(ds)])

NaN == -1

\* parseFloat on unsigned decimal text, in cents: leading blanks are skipped,
\* then digits, then an optional point and digits; anything after is ignored;
\* no digit at all is NaN.
ParseFloat(s) ==
    LET t    == TrimLeft(s)
        ip   == LeadingDigits(t)
        rest == SubSeq(t, Len(ip) + 1, Len(t))
        fp   == IF rest # <<>> /\ Head(rest) = "." THEN LeadingDigits(Tail(rest)) ELSE <<>>
        fp2  == SubSeq(fp \o <<"0", "0">>, 1, 2)
    IN  IF ip = <<>> /\ fp = <<>> THEN NaN
        ELSE 100 * DigitsValue(ip, 0) + DigitsValue(fp2, 0)

\* Number.prototype.toFixed(2) of an amount in cents: <<units, hundredths>>.
ToFixed2(cents) == <<cents \div 100, cents % 100>>

\* The value the HTML parser gives the attribute in  data-id="${id}"  : the
\* text up to the first double quote.
AttrValue(s) ==
    LET i == IndexOf(s, "\"", 1) IN IF i = 0 THEN s ELSE SubSeq(s, 1, i - 1)

----------------------------------------------------------------------------
\* Markup of the cart panel regions

NoTotal == <<>>
NoCount == -1

BlankMarkup ==
    [count |-> NoCount, emptyMsg |-> FALSE, rows |-> <<>>, total |-> NoTotal, confirm |-> FALSE]

EmptyStateMarkup ==
    [count |-> 0, emptyMsg |-> TRUE, rows |-> <<>>, total |-> NoTotal, confirm |-> FALSE]


\* Mutant of CartRow: the quantity is not interpolated.
CartRow_NoQuantity(item) ==
    [name      |-> item.name,
     quantity  |-> 1,
     price     |-> ToFixed2(item.price),
     lineTotal |-> ToFixed2(item.price * item.quantity),
     dataId    |-> AttrValue(item.id)]

\* One cart line of updateCart's template.
CartRow(item) ==
    [name      |-> item.name,
     quantity  |-> item.quantity,
     price     |-> ToFixed2(item.price),
     lineTotal |-> ToFixed2(item.price * item.quantity),
     dataId    |-> AttrValue(item.id)]

\* Mutants of the totals: one per line instead of its quantity, unit prices
\* instead of line totals.
TotalItems_Lines(c) == Len(c)

RECURSIVE TotalPrice_Unit(_)
TotalPrice_Unit(c) == IF c = <<>> THEN 0 ELSE Head(c).price + TotalPrice_Unit(Tail(c))

\* totalItems and totalPrice as the map callback accumulates them.
RECURSIVE TotalItems(_)
TotalItems(c) == IF c = <<>> THEN 0 ELSE Head(c).quantity + TotalItems(Tail(c))

RECURSIVE TotalPrice(_)
TotalPrice(c) ==
    IF c = <<>> THEN 0 ELSE Head(c).price * Head(c).quantity + TotalPrice(Tail(c))

ItemsMarkup(c) ==
    [count    |-> TotalItems(c),
     emptyMsg |-> FALSE,
     rows     |-> [i \in 1..Len(c) |-> CartRow(c[i])],
     total    |-> ToFixed2(TotalPrice(c)),
     confirm  |-> TRUE]

\* Mutant of ModalRow: the quantity is not interpolated.
ModalRow_NoQuantity(item) ==
    [image     |-> item.image,
     name      |-> item.name,
     quantity  |-> 1,
     price     |-> ToFixed2(item.price),
     itemTotal |-> ToFixed2(item.price * item.quantity)]

\* One line of showConfirmationModal's template.
ModalRow(item) ==
    [image     |-> item.image,
     name      |-> item.name,
     quantity  |-> item.quantity,
     price     |-> ToFixed2(item.price),
     itemTotal |-> ToFixed2(item.price * item.quantity)]

----------------------------------------------------------------------------
\* Pages: the markup the controller is loaded on

Roots == {"cartSection", "productGrid", "modalOverlay", "startNewOrderBtn"}

W == Txt1("W")
T == Txt1("T")
B == Txt1("B")
WQuote == Txt2("W", "\"")

NoImg == <<>>
Img(base) == <<base, "-desktop", ".jpg">>

StaleRow(id) ==
    [name |-> W, quantity |-> 1, price |-> ToFixed2(650), lineTotal |-> ToFixed2(650),
     dataId |-> id]

\* Three products with distinct names; the panel holds a .cart child; the
\* modal has no total region.
PageDistinct ==
    [roots      |-> Roots,
     name       |-> <<W, T, B>>,
     price      |-> <<Txt3("$", "6", ".") \o Txt2("5", "0"), Txt3("$", "4", ".") \o Txt2("0", "0"),
                      Txt2("$", "5")>>,
     img        |-> <<Img("w"), Img("t"), NoImg>>,
     cartEl     |-> TRUE,
     cartElInit |-> EmptyStateMarkup,
     panelInit  |-> BlankMarkup,
     hasSummary |-> TRUE,
     hasTotal   |-> FALSE]

\* Two products with distinct names and a card without a name; the modal is
\* complete; the initial panel markup has a confirm control and a remove
\* control.
PageTwo ==
    [roots      |-> Roots,
     name       |-> <<W, Txt2(" ", "T"), <<>>>>,
     price      |-> <<Txt3("$", "6", ".") \o Txt2("5", "0"), Txt3("$", "4", ".") \o Txt2("0", "0"),
                      Txt2("$", "5")>>,
     img        |-> <<Img("w"), NoImg, Img("b")>>,
     cartEl     |-> FALSE,
     cartElInit |-> BlankMarkup,
     panelInit  |-> [BlankMarkup EXCEPT !.confirm = TRUE, !.rows = <<StaleRow(W)>>],
     hasSummary |-> TRUE,
     hasTotal   |-> TRUE]

\* Two cards whose names trim to the same id; the modal has no total region.
PageDup ==
    [roots      |-> Roots,
     name       |-> <<W, Txt3(" ", "W", " "), T>>,
     price      |-> <<Txt3("$", "6", ".") \o Txt1("5"), Txt2("$", "7"), Txt1("x")>>,
     img        |-> <<Img("w"), Img("w2"), NoImg>>,
     cartEl     |-> TRUE,
     cartElInit |-> BlankMarkup,
     panelInit  |-> BlankMarkup,
     hasSummary |-> TRUE,
     hasTotal   |-> FALSE]

\* A card with a blank name, a name holding a double quote, odd price texts;
\* the modal has no summary region; the initial panel has a remove control
\* without data-id.
PageOdd ==
    [roots      |-> Roots,
     name       |-> <<Txt1(" "), WQuote, W>>,
     price      |-> <<Txt1("x"), Txt3("$", "$", "5"), Txt3(" ", "3", ".") \o Txt1("5")>>,
     img        |-> <<NoImg, Img("q"), NoImg>>,
     cartEl     |-> FALSE,
     cartElInit |-> BlankMarkup,
     panelInit  |-> [BlankMarkup EXCEPT !.rows = <<StaleRow(<<>>)>>],
     hasSummary |-> FALSE,
     hasTotal   |-> TRUE]

\* One of the four root containers is missing.
InertPages == {[PageDistinct EXCEPT !.roots = Roots \ {r}] : r \in Roots}

Pages == {PageDistinct, PageTwo, PageDup, PageOdd} \cup InertPages

----------------------------------------------------------------------------
\* State

VARIABLES
    page,    \* the markup the script was loaded on (never changes)
    pc,      \* "loading" before DOMContentLoaded, then "wired" or "inert"
    cart,    \* let cart: CartItem[]
    ui,      \* per card: the .quantity-selector and the .button's display
    panel,   \* content of .card10 outside its .cart child
    cartEl,  \* the .cart child of .card10, while it exists
    modal,   \* .modal-overlay: display, summary rows, total text
    last,    \* the last event dispatched (history)
    prev     \* after an increment that found its entry: the cart, the cards
             \* and the panel as they were before it (history); else empty

vars == <<page, pc, cart, ui, panel, cartEl, modal, last, prev>>

InitialUI == [present |-> FALSE, text |-> 0, btn |-> "css"]

NoEvent(op) == [op |-> op, card |-> 0, id |-> <<>>, n |-> 0]

Init ==
    /\ page \in Pages
    /\ pc = "loading"
    /\ cart = <<>>
    /\ ui = [c \in Cards |-> InitialUI]
    /\ panel = page.panelInit
    /\ cartEl = [exists |-> page.cartEl, content |-> page.cartElInit]
    /\ modal = [display |-> "css", summary |-> <<>>, total |-> NoTotal]
    /\ last = NoEvent("none")
    /\ prev = <<>>

----------------------------------------------------------------------------
\* Helpers of the handlers

\* Mutant of Find: the lookup never matches.
Find_Miss(c, id) == 0

\* Index of the first entry with this id, 0 when there is none (cart.find).
RECURSIVE FindFrom(_, _, _)
FindFrom(c, id, i) ==
    IF i > Len(c) THEN 0 ELSE IF c[i].id = id THEN i ELSE FindFrom(c, id, i + 1)

Find(c, id) == FindFrom(c, id, 1)

\* Mutant of FilterOut: nothing is filtered.
FilterOut_KeepAll(c, id) == c

\* Mutant of FilterOut: the comparison is inverted, only the entry with the
\* id is kept.
RECURSIVE FilterOut_Inverted(_, _)
FilterOut_Inverted(c, id) ==
    IF c = <<>> THEN <<>>
    ELSE IF Head(c).id # id THEN FilterOut_Inverted(Tail(c), id)
         ELSE <<Head(c)>> \o FilterOut_Inverted(Tail(c), id)

\* Mutant of FilterOut: the kept entries come out in reverse order.
RECURSIVE FilterOut_Reversed(_, _)
FilterOut_Reversed(c, id) ==
    IF c = <<>> THEN <<>>
    ELSE IF Head(c).id = id THEN FilterOut_Reversed(Tail(c), id)
         ELSE FilterOut_Reversed(Tail(c), id) \o <<Head(c)>>

\* cart.filter(item => item.id !== id)
RECURSIVE FilterOut(_, _)
FilterOut(c, id) ==
    IF c = <<>> THEN <<>>
    ELSE IF Head(c).id = id THEN FilterOut(Tail(c), id)
         ELSE <<Head(c)>> \o FilterOut(Tail(c), id)

\* Mutant of CardId: the name is not trimmed.
CardId_NoTrim(c) == page.name[c]

CardId(c) == Trim(page.name[c])

\* Mutant of ProductPrice: NaN is not replaced by 0.
ProductPrice_NoDefault(text) == ParseFloat(ReplaceFirst(text, "$"))

\* parseFloat(text.replace('$', '')) || 0
ProductPrice(text) ==
    LET v == ParseFloat(ReplaceFirst(text, "$")) IN IF v = NaN THEN 0 ELSE v

\* imgEl?.src ? imgEl.src.replace('-desktop', '') : undefined
ProductImage(src) == IF src = NoImg THEN NoImg ELSE ReplaceFirst(src, "-desktop")

\* Mutant of NewItem: the entry starts at quantity 2.
NewItem_Two(c) ==
    [id       |-> CardId(c),
     name     |-> CardId(c),
     price    |-> ProductPrice(page.price[c]),
     quantity |-> 2,
     image    |-> ProductImage(page.img[c])]

NewItem(c) ==
    [id       |-> CardId(c),
     name     |-> CardId(c),
     price    |-> ProductPrice(page.price[c]),
     quantity |-> 1,
     image    |-> ProductImage(page.img[c])]

\* Mutant of UpdateButtonState: updating the number shows the add button
\* again.
UpdateButtonState_ShowsButton(u, quantity) ==
    IF ~u.present
    THEN [present |-> TRUE, text |-> quantity, btn |-> "none"]
    ELSE [u EXCEPT !.text = quantity, !.btn = "block"]

UpdateButtonState(u, quantity) ==
    IF ~u.present
    THEN [present |-> TRUE, text |-> quantity, btn |-> "none"]
    ELSE [u EXCEPT !.text = quantity]

\* Mutant of ResetButtonState: the selector is not removed.
ResetButtonState_KeepSelector(u) == [u EXCEPT !.btn = "block"]

ResetButtonState(u) == [present |-> FALSE, text |-> 0, btn |-> "block"]

\* Mutant of FindCardFrom: the card's name is compared untrimmed.
RECURSIVE FindCardFrom_NoTrim(_, _)
FindCardFrom_NoTrim(productId, c) ==
    IF c \notin Cards THEN 0
    ELSE IF page.name[c] = productId THEN c ELSE FindCardFrom_NoTrim(productId, c + 1)

\* Mutant of FindProductCardById: no card is ever found.
FindProductCardById_None(productId) == 0

\* First card whose trimmed name is productId, 0 when there is none.
RECURSIVE FindCardFrom(_, _)
FindCardFrom(productId, c) ==
    IF c \notin Cards THEN 0
    ELSE IF CardId(c) = productId THEN c ELSE FindCardFrom(productId, c + 1)

FindProductCardById(productId) == FindCardFrom(productId, 1)

\* Mutant of UpdateCart: an empty cart renders nothing.
UpdateCart_SkipEmpty(c) ==
    IF c = <<>>
    THEN [panel |-> panel, cartEl |-> cartEl]
    ELSE [panel |-> ItemsMarkup(c), cartEl |-> [exists |-> FALSE, content |-> BlankMarkup]]

\* updateCart for the cart list c: the panel and the .cart child afterwards.
UpdateCart(c) ==
    IF c = <<>>
    THEN IF cartEl.exists
         THEN [panel |-> panel, cartEl |-> [cartEl EXCEPT !.content = EmptyStateMarkup]]
         ELSE [panel |-> EmptyStateMarkup, cartEl |-> cartEl]
    ELSE [panel |-> ItemsMarkup(c), cartEl |-> [exists |-> FALSE, content |-> BlankMarkup]]

\* Mutant of ShowConfirmationModal: the two regions are not checked.
ShowConfirmationModal_NoGuard ==
    [display |-> "flex",
     summary |-> [i \in 1..Len(cart) |-> ModalRow(cart[i])],
     total   |-> ToFixed2(TotalPrice(cart))]

\* Mutant of ShowConfirmationModal: the display is toggled.
ShowConfirmationModal_Toggle ==
    IF ~page.hasSummary \/ ~page.hasTotal THEN modal
    ELSE [display |-> IF modal.display = "flex" THEN "none" ELSE "flex",
          summary |-> [i \in 1..Len(cart) |-> ModalRow(cart[i])],
          total   |-> ToFixed2(TotalPrice(cart))]

\* showConfirmationModal: the modal afterwards.
ShowConfirmationModal ==
    IF ~page.hasSummary \/ ~page.hasTotal THEN modal
    ELSE [display |-> "flex",
          summary |-> [i \in 1..Len(cart) |-> ModalRow(cart[i])],
          total   |-> ToFixed2(TotalPrice(cart))]

----------------------------------------------------------------------------
\* Actions

\* Mutant of DOMContentLoaded: the listeners are wired without the check.
DOMContentLoaded_NoCheck ==
    /\ pc = "loading"
    /\ pc' = "wired"
    /\ last' = NoEvent("load")
    /\ prev' = <<>>
    /\ UNCHANGED <<page, cart, ui, panel, cartEl, modal>>

\* The DOMContentLoaded callback: wires the three listeners unless a root
\* container is missing.
DOMContentLoaded ==
    /\ pc = "loading"
    /\ pc' = IF page.roots = Roots THEN "wired" ELSE "inert"
    /\ last' = NoEvent("load")
    /\ prev' = <<>>
    /\ UNCHANGED <<page, cart, ui, panel, cartEl, modal>>

\* The buttons a click in the grid can land on: card 0 is "inside no card",
\* control "none" is "not on a button"; "add" is any button that is neither
\* the increment nor the decrement button, which exist only inside a
\* quantity selector.
GridTargets ==
    {t \in [card : {0} \cup Cards, ctl : {"none", "add", "inc", "dec"}] :
        t.ctl \in {"inc", "dec"} => (t.card \in Cards /\ ui[t.card].present)}

\* What an increment followed by a decrement is compared on.
Snapshot ==
    [cart |-> cart, ui |-> ui, panel |-> IF cartEl.exists THEN cartEl.content ELSE panel]

\* The click listener of the product grid.
GridClick(t) ==
    LET c      == t.card
        cardId == IF c \in Cards THEN CardId(c) ELSE <<>>
        idx    == Find(cart, cardId)
        n      == IF idx = 0 THEN 0 ELSE cart[idx].quantity
        ev     == [op |-> t.ctl, card |-> c, id |-> cardId, n |-> n]
    IN
    /\ last' = ev
    /\ prev' = IF t.ctl = "inc" /\ idx # 0 THEN <<Snapshot>> ELSE <<>>
    /\ UNCHANGED <<page, pc, modal>>
    /\ IF t.ctl = "none" \/ c = 0 \/ cardId = <<>>
       THEN UNCHANGED <<cart, ui, panel, cartEl>>
       ELSE IF t.ctl = "inc"
       THEN IF idx # 0
            THEN LET cart2 == [cart EXCEPT ![idx].quantity = @ + 1]
                     r     == UpdateCart(cart2)
                 IN  /\ n < MaxQty
                     /\ cart' = cart2
                     /\ ui' = [ui EXCEPT ![c] = UpdateButtonState(@, cart2[idx].quantity)]
                     /\ panel' = r.panel
                     /\ cartEl' = r.cartEl
            ELSE UNCHANGED <<cart, ui, panel, cartEl>>
       ELSE IF t.ctl = "dec"
       THEN IF idx # 0
            THEN LET dec   == [cart EXCEPT ![idx].quantity = @ - 1]
                     cart2 == IF dec[idx].quantity = 0 THEN FilterOut(dec, cardId) ELSE dec
                     r     == UpdateCart(cart2)
                 IN  /\ cart' = cart2
                     /\ ui' = [ui EXCEPT ![c] = IF dec[idx].quantity = 0
                                                THEN ResetButtonState(@)
                                                ELSE UpdateButtonState(@, dec[idx].quantity)]
                     /\ panel' = r.panel
                     /\ cartEl' = r.cartEl
            ELSE UNCHANGED <<cart, ui, panel, cartEl>>
       ELSE IF idx = 0
            THEN LET cart2 == Append(cart, NewItem(c))
                     r     == UpdateCart(cart2)
                 IN  /\ cart' = cart2
                     /\ ui' = [ui EXCEPT ![c] = UpdateButtonState(@, 1)]
                     /\ panel' = r.panel
                     /\ cartEl' = r.cartEl
            ELSE UNCHANGED <<cart, ui, panel, cartEl>>

ProductGridClick ==
    /\ pc = "wired"
    /\ \E t \in GridTargets : GridClick(t)

\* The data-id values of the remove controls now in the panel (<<>> stands
\* for a control without data-id).
RemoveControls ==
    {panel.rows[i].dataId : i \in 1..Len(panel.rows)}
      \cup (IF cartEl.exists
            THEN {cartEl.content.rows[i].dataId : i \in 1..Len(cartEl.content.rows)}
            ELSE {})

ConfirmControl == panel.confirm \/ (cartEl.exists /\ cartEl.content.confirm)

\* The click listener of the cart panel, on a remove control.
RemoveClick(productId) ==
    LET idx  == Find(cart, productId)
        n    == IF idx = 0 THEN 0 ELSE cart[idx].quantity
        card == FindProductCardById(productId)
        cart2 == FilterOut(cart, productId)
        r    == UpdateCart(cart2)
    IN
    /\ last' = [op |-> "remove", card |-> card, id |-> productId, n |-> n]
    /\ prev' = <<>>
    /\ UNCHANGED <<page, pc, modal>>
    /\ IF productId = <<>>
       THEN UNCHANGED <<cart, ui, panel, cartEl>>
       ELSE /\ cart' = cart2
            /\ ui' = IF card # 0 THEN [ui EXCEPT ![card] = ResetButtonState(@)] ELSE ui
            /\ panel' = r.panel
            /\ cartEl' = r.cartEl

\* The click listener of the cart panel, on the confirm control.
ConfirmClick ==
    /\ modal' = ShowConfirmationModal
    /\ last' = NoEvent("confirm")
    /\ prev' = <<>>
    /\ UNCHANGED <<page, pc, cart, ui, panel, cartEl>>

\* The click listener of the cart panel, on anything else.
PanelOtherClick ==
    /\ last' = NoEvent("panel")
    /\ prev' = <<>>
    /\ UNCHANGED <<page, pc, cart, ui, panel, cartEl, modal>>

CartSectionClick ==
    /\ pc = "wired"
    /\ \/ \E productId \in RemoveControls : RemoveClick(productId)
       \/ ConfirmControl /\ ConfirmClick
       \/ PanelOtherClick

\* resetOrder, the click listener of the start-new-order button.
ResetOrder ==
    LET r == UpdateCart(<<>>)
    IN
    /\ pc = "wired"
    /\ modal' = [modal EXCEPT !.display = "none"]
    /\ cart' = <<>>
    /\ ui' = [c \in Cards |-> ResetButtonState(ui[c])]
    /\ panel' = r.panel
    /\ cartEl' = r.cartEl
    /\ last' = NoEvent("reset")
    /\ prev' = <<>>
    /\ UNCHANGED <<page, pc>>

\* A click on a page where the callback returned before wiring: on the add
\* button of card c, or (c = 0) anywhere else.  No listener runs.
UnhandledClick ==
    /\ pc = "inert"
    /\ \E c \in {0} \cup Cards : last' = [op |-> "unhandled", card |-> c, id |-> <<>>, n |-> 0]
    /\ prev' = <<>>
    /\ UNCHANGED <<page, pc, cart, ui, panel, cartEl, modal>>

Next ==
    \/ DOMContentLoaded
    \/ ProductGridClick
    \/ CartSectionClick
    \/ ResetOrder
    \/ UnhandledClick

Spec == Init /\ [][Next]_vars

----------------------------------------------------------------------------
\* Vocabulary of the properties

\* The ids (trimmed names) of the cards are pairwise distinct.
DistinctNames == \A c1, c2 \in Cards : c1 # c2 => CardId(c1) # CardId(c2)

\* The card shows the "add" control: no quantity selector, button not hidden.
AddDisplay(u) == ~u.present /\ u.btn # "none"

\* The card shows a quantity selector displaying n.
SelectorShows(u, n) == u.present /\ u.text = n

\* The region of the cart panel that updateCart last wrote, or the initial
\* markup of the region it is going to write.
RenderedPanel == IF cartEl.exists THEN cartEl.content ELSE panel

\* Sums over the cart, by index.
RECURSIVE QuantitySum(_, _)
QuantitySum(c, k) == IF k = 0 THEN 0 ELSE QuantitySum(c, k - 1) + c[k].quantity

RECURSIVE PriceSum(_, _)
PriceSum(c, k) == IF k = 0 THEN 0 ELSE PriceSum(c, k - 1) + c[k].quantity * c[k].price

\* The last event was a grid click on a button of a card with a name.
GridEvent(ev, ctl) == ev.op = ctl /\ ev.card \in Cards /\ ev.id # <<>>

----------------------------------------------------------------------------
\* C1: on a page whose cards have pairwise distinct names, once the handlers
\* are wired, every card shows a quantity selector displaying N > 0 exactly
\* when the cart has an entry with the card's id and quantity N, and a card
\* without an entry shows the add control and no selector.
C1_CardsMirrorCart ==
    (pc = "wired" /\ DistinctNames) =>
        \A c \in Cards :
            LET idx == FindFrom(cart, CardId(c), 1)
            IN  /\ \A n \in 1..(MaxQty + 1) :
                      SelectorShows(ui[c], n) <=> (idx # 0 /\ cart[idx].quantity = n)
                /\ idx = 0 => AddDisplay(ui[c])

\* A remove click deleted an entry of quantity 2 while another card still
\* shows its selector.
C1_Witness ==
    /\ pc = "wired" /\ DistinctNames
    /\ last.op = "remove" /\ last.n = 2 /\ last.card \in Cards
    /\ AddDisplay(ui[last.card])
    /\ \E c \in Cards : SelectorShows(ui[c], 2)

\* C2: every cart entry has quantity at least 1.
C2_QuantityPositive == \A i \in 1..Len(cart) : cart[i].quantity >= 1

\* A decrement of an entry of quantity 1 happened and the cart is not empty.
C2_Witness == GridEvent(last, "dec") /\ last.n = 1 /\ cart # <<>>

\* C3: the cart has at most one entry per id.
C3_OneEntryPerId ==
    \A i, j \in 1..Len(cart) : i # j => cart[i].id # cart[j].id

\* An add click came for an id that already had an entry, with two entries in
\* the cart.
C3_Witness == GridEvent(last, "add") /\ last.n >= 1 /\ Len(cart) = 2

\* C4: an add click for an id without entry appends exactly one entry with
\* that id and quantity 1 and the card shows the selector with 1; an add click
\* for an id with an entry changes neither the cart nor any card.
C4_AddClick ==
    [][GridEvent(last', "add") =>
        IF last'.n = 0
        THEN /\ Len(cart') = Len(cart) + 1
             /\ SubSeq(cart', 1, Len(cart)) = cart
             /\ cart'[Len(cart')].id = last'.id
             /\ cart'[Len(cart')].quantity = 1
             /\ SelectorShows(ui'[last'.card], 1)
        ELSE cart' = cart /\ ui' = ui /\ panel' = panel]_vars

\* After two add clicks that appended, an add click found its entry present
\* with quantity 2.
C4_Witness ==
    /\ GridEvent(last, "add") /\ last.n = 2
    /\ Len(cart) = 2
    /\ \E i \in 1..2 : cart[i].id = last.id /\ cart[i].quantity = 2

\* C5: an increment click for an id whose entry has quantity N makes the
\* quantity N + 1 and raises the item count in the panel header by one.
C5_IncrementClick ==
    [][(GridEvent(last', "inc") /\ last'.n >= 1) =>
        LET idx == FindFrom(cart, last'.id, 1)
        IN  /\ Len(cart') = Len(cart)
            /\ cart'[idx].id = last'.id
            /\ cart'[idx].quantity = last'.n + 1
            /\ last'.n = cart[idx].quantity
            /\ RenderedPanel'.count = RenderedPanel.count + 1]_vars

\* An increment took an entry from 1 to 2 with another entry in the cart.
C5_Witness ==
    /\ GridEvent(last, "inc") /\ last.n = 1
    /\ Len(cart) = 2
    /\ \E i \in 1..2 : cart[i].id = last.id /\ cart[i].quantity = 2

\* C6: a decrement click for an id whose entry has quantity N: for N = 1 the
\* entry leaves the cart and the card returns to the add display; for N > 1
\* the entry stays with quantity N - 1 and the card's selector shows N - 1.
C6_DecrementClick ==
    [][(GridEvent(last', "dec") /\ last'.n >= 1) =>
        LET idx == FindFrom(cart, last'.id, 1)
        IN  /\ last'.n = cart[idx].quantity
            /\ IF last'.n = 1
               THEN /\ \A i \in 1..Len(cart') : cart'[i].id # last'.id
                    /\ Len(cart') = Len(cart) - 1
                    /\ AddDisplay(ui'[last'.card])
               ELSE /\ Len(cart') = Len(cart)
                    /\ cart'[idx].id = last'.id
                    /\ cart'[idx].quantity = last'.n - 1
                    /\ SelectorShows(ui'[last'.card], last'.n - 1)]_vars

\* A decrement of an entry of quantity 1 put the card back to the add display
\* while another entry stays in the cart.
C6_Witness ==
    /\ GridEvent(last, "dec") /\ last.n = 1
    /\ ui[last.card] = [present |-> FALSE, text |-> 0, btn |-> "block"]
    /\ Len(cart) = 1 /\ cart[1].quantity = 2

C8_PanelTotals ==
    pc = "wired" =>
        /\ cart # <<>> =>
              /\ RenderedPanel.count = QuantitySum(cart, Len(cart))
              /\ RenderedPanel.total = ToFixed2(PriceSum(cart, Len(cart)))
              /\ ~RenderedPanel.emptyMsg
        /\ (/\ cart = <<>>
            /\ \/ GridEvent(last, "dec") /\ last.n >= 1
               \/ last.op = "remove" /\ last.n >= 1
               \/ last.op = "reset")
              => RenderedPanel.emptyMsg /\ RenderedPanel.count = 0

\* The panel shows the count 3 and the total $17.00 of two entries with
\* different prices, after an increment.
C8_Witness ==
    /\ GridEvent(last, "inc")
    /\ Len(cart) = 2 /\ cart[1].price # cart[2].price
    /\ RenderedPanel.count = 3 /\ RenderedPanel.total = <<17, 0>>

\* C9: after a start-new-order click, whatever the state before, the cart is
\* empty, the modal is hidden, every card is in the add display and the
\* panel shows the empty state.
C9_ResetOrder ==
    [][last'.op = "reset" =>
        /\ cart' = <<>>
        /\ modal'.display = "none"
        /\ \A c \in Cards : AddDisplay(ui'[c])
        /\ RenderedPanel' = EmptyStateMarkup
        /\ ~ConfirmControl' /\ RemoveControls' = {}]_vars

\* A start-new-order click came with the modal open on a cart of two entries:
\* the modal summary still has its two rows.
C9_Witness ==
    /\ last.op = "reset"
    /\ Len(modal.summary) = 2 /\ modal.display = "none"
    /\ cart = <<>>

\* The panel and the modal summary show the entries of cart list c.
PanelShows(c) ==
    /\ Len(RenderedPanel.rows) = Len(c)
    /\ \A i \in 1..Len(c) :
          /\ RenderedPanel.rows[i].name = c[i].name
          /\ RenderedPanel.rows[i].quantity = c[i].quantity

ModalShows(c) ==
    /\ Len(modal.summary) = Len(c)
    /\ \A i \in 1..Len(c) :
          /\ modal.summary[i].name = c[i].name
          /\ modal.summary[i].quantity = c[i].quantity

ModalComplete == page.hasSummary /\ page.hasTotal

\* C11: a confirm click on a page whose modal is complete makes the modal
\* visible with one row per cart entry, in cart order, each row with the
\* entry's quantity, and with a total equal to the sum of price * quantity,
\* which is the grand total the cart panel shows at that moment when it shows
\* one.
C11_ConfirmClick ==
    [][(last'.op = "confirm" /\ ModalComplete) =>
        /\ modal'.display = "flex"
        /\ ModalShows(cart)'
        /\ modal'.total = ToFixed2(PriceSum(cart, Len(cart)))
        /\ RenderedPanel.total # NoTotal => modal'.total = RenderedPanel.total]_vars

\* A confirm click opened the modal on two entries, the second added first
\* in card order, with total $14.50.
C11_Witness ==
    /\ last.op = "confirm"
    /\ modal.display = "flex"
    /\ Len(cart) = 2 /\ cart[1].id = T /\ cart[1].quantity = 2 /\ cart[2].id = W
    /\ Len(modal.summary) = 2 /\ modal.summary[1].quantity = 2
    /\ modal.total = <<14, 50>> /\ RenderedPanel.total = <<14, 50>>

\* C12: on a page where one of the four root containers is missing, no step
\* changes the cart, a card's display, the cart panel or the modal.
C12_InertPage ==
    [][page.roots # Roots =>
        /\ pc' # "wired"
        /\ UNCHANGED <<cart, ui, panel, cartEl, modal>>]_vars

\* A click on a card's add button came on a page that was not wired.
C12_Witness ==
    /\ page.roots # Roots /\ pc = "inert"
    /\ last.op = "unhandled" /\ last.card = 1
    /\ cart = <<>> /\ ~ui[1].present

\* The cart list c has an entry with this id.
HasEntry(c, id) == \E i \in 1..Len(c) : c[i].id = id

\* C13: a click whose lookup fails leaves the cart list as it was: a grid
\* click off any button, outside any card or in a card without a name (the
\* cards and the panel stay too); an increment or decrement click for an id
\* without entry; a remove click without data-id or for an id without entry;
\* a confirm click on a modal without summary or total region, which also
\* leaves the modal as it was, not visible.
C13_LookupFailure ==
    [][/\ (/\ last'.op \in {"none", "add", "inc", "dec"}
           /\ (last'.op = "none" \/ last'.card = 0 \/ last'.id = <<>>))
          => UNCHANGED <<cart, ui, panel, cartEl, modal>>
       /\ (last'.op \in {"inc", "dec"} /\ ~HasEntry(cart, last'.id))
          => /\ cart' = cart
             /\ ~HasEntry(cart', last'.id)
             /\ \A i \in 1..Len(cart') : cart'[i].quantity >= 1
       /\ (last'.op = "remove" /\ (last'.id = <<>> \/ ~HasEntry(cart, last'.id)))
          => cart' = cart
       /\ (last'.op = "confirm" /\ ~ModalComplete)
          => /\ UNCHANGED <<cart, ui, panel, cartEl, modal>>
             /\ modal'.display # "flex"]_vars

\* An increment click came from a card whose selector outlived its entry,
\* while the cart holds another entry.
C13_Witness ==
    /\ GridEvent(last, "inc") /\ ~HasEntry(cart, last.id)
    /\ ui[last.card].present
    /\ cart # <<>>

\* The ids of a cart list, and the names of the rows of a panel region, in
\* order.
Ids(c) == [i \in 1..Len(c) |-> c[i].id]

RowNames(m) == [i \in 1..Len(m.rows) |-> m.rows[i].name]

\* s without its k-th element.
Without(s, k) == SubSeq(s, 1, k - 1) \o SubSeq(s, k + 1, Len(s))

\* C14: an increment or a decrement above zero leaves every entry at its
\* position; a removal (decrement to zero or remove control) takes one id out
\* and keeps the others in their order; an add puts the id at the end, also
\* when the product was in the cart before; and after each of these steps the
\* rows of the cart panel are in the order of the cart.
C14_CartOrder ==
    [][(cart' # cart /\ last'.op # "reset") =>
        /\ Len(cart') = Len(cart) => Ids(cart') = Ids(cart)
        /\ Len(cart') < Len(cart) =>
              /\ last'.op \in {"dec", "remove"}
              /\ \E k \in 1..Len(cart) :
                    /\ cart[k].id = last'.id
                    /\ Ids(cart') = Without(Ids(cart), k)
        /\ Len(cart') > Len(cart) =>
              /\ last'.op = "add"
              /\ Ids(cart') = Ids(cart) \o <<last'.id>>
        /\ RowNames(RenderedPanel') = Ids(cart')]_vars

\* One of three entries was taken out and the two that stayed are still in
\* the order they were added in, which is not the order of their cards.
C14_Witness ==
    /\ last.op \in {"dec", "remove"} /\ last.n >= 1 /\ last.id = T
    /\ Ids(cart) = <<B, W>>
    /\ RowNames(RenderedPanel) = <<B, W>>

\* Cards c and d are different cards whose names trim to the same text.
SameName(c, d) == c # d /\ Trim(page.name[c]) = Trim(page.name[d]) /\ Trim(page.name[c]) # <<>>

\* C15: when two cards share a name, an add click on one of them while the
\* cart has an entry for that name changes nothing in the cart, and the cart
\* never holds two entries for that name.
C15_NameCollision ==
    [][\A c, d \in Cards : SameName(c, d) =>
        /\ (/\ last'.op = "add" /\ last'.card = c
            /\ \E i \in 1..Len(cart) : Trim(cart[i].id) = Trim(page.name[c]))
           => cart' = cart
        /\ \A i, j \in 1..Len(cart') :
              (i # j /\ Trim(cart'[i].id) = Trim(page.name[c]))
                  => Trim(cart'[j].id) # Trim(page.name[c])]_vars

\* The entry was added through the first card and raised to 2; the add click
\* on the second card of that name left the cart with that one entry.
C15_Witness ==
    /\ \E d \in Cards : SameName(2, d) /\ ui[d].present /\ ui[d].text = 2
    /\ last.op = "add" /\ last.card = 2 /\ last.n = 2
    /\ ~ui[2].present
    /\ Len(cart) = 1 /\ cart[1].quantity = 2

\* The price texts of the pages that are no number once one "$" is taken
\* off: "x" and "$$5".
UnparseablePrices == {Txt1("x"), Txt3("$", "$", "5")}

\* C16: an add click on a card with a name, no entry and a price text that is
\* no number appends an entry for the card with quantity 1 and price 0, and
\* the card shows the selector with 1.
C16_UnparseablePrice ==
    [][\A c \in Cards :
        (/\ last'.op = "add" /\ last'.card = c
         /\ Trim(page.name[c]) # <<>>
         /\ ~HasEntry(cart, Trim(page.name[c]))
         /\ page.price[c] \in UnparseablePrices)
        => /\ Len(cart') = Len(cart) + 1
           /\ SubSeq(cart', 1, Len(cart)) = cart
           /\ cart'[Len(cart')].id = Trim(page.name[c])
           /\ cart'[Len(cart')].quantity = 1
           /\ cart'[Len(cart')].price = 0
           /\ SelectorShows(ui'[c], 1)
           /\ ui'[c].btn = "none"]_vars

\* The card priced "$$5" was added to a cart that held an entry with a
\* parsed price.
C16_Witness ==
    /\ last.op = "add" /\ last.card \in Cards /\ last.n = 0
    /\ page.price[last.card] = Txt3("$", "$", "5")
    /\ Len(cart) = 2
    /\ cart[1].price = 350
    /\ cart[2].id = last.id /\ cart[2].price = 0 /\ cart[2].quantity = 1
    /\ RenderedPanel.total = <<3, 50>>

\* The entries of cart list c whose id is not P, in order.
Others(c, P) == SelectSeq(c, LAMBDA e : e.id # P)

\* C17: a grid click on a button of card c leaves every entry with another
\* id than the card's as it was (quantity, price, name, image, order) and
\* every other card's display as it was; a remove click for id P leaves every
\* entry with another id and every card with another name as it was; a
\* confirm click changes neither the cart, nor a card, nor the cart panel.
C17_Frame ==
    [][/\ (last'.op \in {"add", "inc", "dec"} /\ last'.card \in Cards)
          => /\ Others(cart', Trim(page.name[last'.card]))
                  = Others(cart, Trim(page.name[last'.card]))
             /\ \A d \in Cards \ {last'.card} : ui'[d] = ui[d]
       /\ last'.op = "remove"
          => /\ Others(cart', last'.id) = Others(cart, last'.id)
             /\ \A d \in Cards : Trim(page.name[d]) # last'.id => ui'[d] = ui[d]
       /\ last'.op = "confirm"
          => UNCHANGED <<cart, ui, panel, cartEl>>]_vars

\* A remove click deleted the second of three entries; the two others have
\* quantity 2 and 1 and their cards show 2 and 1.
C17_Witness ==
    /\ last.op = "remove" /\ last.n >= 1 /\ last.id = T
    /\ Ids(cart) = <<W, B>>
    /\ cart[1].quantity = 2 /\ cart[2].quantity = 1
    /\ SelectorShows(ui[1], 2) /\ SelectorShows(ui[3], 1)
    /\ AddDisplay(ui[2])

\* The modal overlay is shown (the stylesheet hides it until display is set).
ModalVisible == modal.display = "flex"

\* C18: the modal becomes visible only by a confirm click and stops being
\* visible only by a start-new-order click: while it is visible, every other
\* step leaves it visible.
C18_ModalVisibility ==
    [][/\ (~ModalVisible /\ ModalVisible') => last'.op = "confirm"
       /\ (ModalVisible /\ ~ModalVisible') => last'.op = "reset"
       /\ (ModalVisible /\ last'.op # "reset") => ModalVisible']_vars

\* With the modal open, the cart was emptied by a remove click and the modal
\* is still visible with its two rows.
C18_Witness ==
    /\ ModalVisible /\ Len(modal.summary) = 2
    /\ last.op = "remove" /\ last.n >= 1
    /\ cart = <<>>

\* The last click ran updateCart.
PanelRendered ==
    \/ GridEvent(last, "add") /\ last.n = 0
    \/ GridEvent(last, "inc") /\ last.n >= 1
    \/ GridEvent(last, "dec") /\ last.n >= 1
    \/ last.op = "remove" /\ last.id # <<>>
    \/ last.op = "reset"

\* C19: after a click that rendered the cart panel, the panel has a confirm
\* control exactly when the cart is not empty and a remove control for id P
\* exactly when the cart has an entry for P; and on a page whose initial
\* panel markup has no confirm control, a confirm click never comes on an
\* empty cart.
C19_PanelControls ==
    /\ PanelRendered =>
          /\ ConfirmControl <=> cart # <<>>
          /\ \A P \in RemoveControls \cup {cart[i].id : i \in 1..Len(cart)} :
                P \in RemoveControls <=> HasEntry(cart, P)
    /\ (last.op = "confirm" /\ ~page.panelInit.confirm /\ ~page.cartElInit.confirm)
          => cart # <<>>

\* This step is a decrement click on the card whose increment click, which
\* found an entry, was the step before.
DecrementAfterIncrement ==
    /\ GridEvent(last, "inc") /\ last.n >= 1 /\ prev # <<>>
    /\ GridEvent(last', "dec") /\ last'.card = last.card

\* The cart, every card and the panel's count and total after this step are
\* those of the snapshot.
Restored ==
    /\ cart' = prev[1].cart
    /\ ui' = prev[1].ui
    /\ RenderedPanel'.count = prev[1].panel.count
    /\ RenderedPanel'.total = prev[1].panel.total

\* C20 as stated: an increment click followed at once by a decrement click on
\* the same card restores the cart (entries, order, quantities), every
\* card's display and the panel's count and total.
C20_RoundTrip ==
    [][DecrementAfterIncrement => Restored]_vars

\* C20 as amended: the same on a page whose cards have pairwise distinct
\* names.
C20_RoundTripDistinct ==
    [][(DistinctNames /\ DecrementAfterIncrement) => Restored]_vars

\* With distinct names, an increment from 1 to 2 and the decrement after it
\* are done, with two entries in the cart.
C20_Witness ==
    /\ DistinctNames
    /\ GridEvent(last, "dec") /\ last.n = 2
    /\ Len(cart) = 2
    /\ \E i \in 1..2 : cart[i].id = last.id /\ cart[i].quantity = 1
    /\ SelectorShows(ui[last.card], 1)
    /\ RenderedPanel.count = 2

====
